---- MODULE Spec2Model ----
(***************************************************************************)
(* State-machine model of the session and event-correlation engine of the  *)
(* OpenAI Realtime voice bridge (src/src/session-manager.js).              *)
(*                                                                         *)
(* The program runs on one JavaScript event loop: every caller operation,  *)
(* transport callback and timer callback runs to completion, so each is    *)
(* one atomic action here.  A session *instance* is the sessionState       *)
(* object built by one createSession call together with its WebSocket; the *)
(* registry (this.sessions) maps a session id to an instance, and an       *)
(* instance that has left the registry keeps its transport callbacks.      *)
(*                                                                         *)
(* Strings are sequences of tokens, so concatenation is \o and the empty   *)
(* string is << >>.  Time is counted in ticks of 15 s.                     *)
(***************************************************************************)
EXTENDS Integers, Sequences, FiniteSets, TLC

\* ------------------------------------------------------------------ bounds
MaxInst == 2      \* session instances ever created
MaxReq == 2       \* sendText/sendAudio calls ever admitted
MaxTime == 2      \* the clock stops here
MaxIdleTime == 3  \* the clock of the runs that let a session go idle
MaxDeltas == 1    \* delta events the remote service emits per response
MaxPcmLen == 3    \* bytes of raw PCM handed to the audio utilities
MaxStreamDeltas == 2  \* delta events per response in the streaming scope

\* ------------------------------------------------------- program constants
ConnectTimeoutTicks == 1     \* setTimeout(..., 15000)
CleanupIntervalTicks == 4    \* setInterval(..., 60000)

NoTimer == -1                \* a timer that is cleared, fired or never armed

Inst == 1..MaxInst
Req == 1..MaxReq

\* options.sessionId as supplied by callers; NoId stands for "not supplied".
SuppliedIds == {"a"}
NoId == "none"

\* The id uuidv4() generates for the n-th instance (unique, never supplied).
Uuid(n) == CASE n = 1 -> "u1" [] n = 2 -> "u2" [] n = 3 -> "u3" [] OTHER -> "u4"

AllIds == SuppliedIds \cup {Uuid(n) : n \in Inst}

\* A field a message or request body does not carry (falsy where tested).
Undefined == "undefined"

\* event.error.message of a remote error event that carries one, and the text
\* the handler falls back to ('Error desconocido de OpenAI').
RemoteMessage == "remote message"
UnknownOpenAIError == "UnknownOpenAIError"

\* config.defaultInstructions and config.defaultVoice, which a session gets
\* when createSession is given none; NewInstructions is a text a caller
\* passes to updateInstructions.
DefaultInstructions == "i0"
NewInstructions == "i1"
DefaultVoice == "alloy"

\* this.config as the constructor builds it: no session limit, a response
\* timeout of one tick and an idle window of one tick.
Unlimited == [maxSessions |-> 0, responseTimeoutMs |-> 1, sessionMaxIdleMs |-> 1]

\* The same with MAX_SESSIONS set.
Limited(n) == [Unlimited EXCEPT !.maxSessions = n]

\* A configuration whose response timeout is shorter than its idle threshold.
Patient == [Unlimited EXCEPT !.sessionMaxIdleMs = 2]

VARIABLES
    now,        \* Date.now(), in ticks
    config,     \* this.config
    nextSweep,  \* the tick at which the cleanup interval fires next
    sessions,   \* this.sessions: instances in Map insertion order, keyed by id
    inst,       \* every sessionState object ever built, with its WebSocket
    nInst,      \* number of instances built so far
    req,        \* every PendingRequest ever built, with its promise and timer
    nReq,       \* number of requests built so far
    remote,     \* the remote service: per transport, the responses it owes
    lastRes,    \* what the last caller operation returned or threw
    limits,     \* the scope of the run (see Scope)
    audio       \* the audio utilities: the arguments and results of a call

vars ==
    <<now, config, nextSweep, sessions, inst, nInst, req, nReq, remote, lastRes,
      limits, audio>>

\* ------------------------------------------------------------------ shapes
FreeInst ==
    [ id |-> NoId, ws |-> "NONE", status |-> "none", lastActivityAt |-> 0,
      conversationHistory |-> << >>, pendingResponses |-> << >>,
      connectTimeout |-> NoTimer, created |-> "none",
      instructions |-> "none", voice |-> "none" ]

NoResult == [ settled |-> FALSE ]

FreeReq ==
    [ sess |-> 0, isAudioInput |-> FALSE, returnAudio |-> FALSE,
      text |-> << >>, textDelta |-> << >>, audioDelta |-> << >>,
      inputTranscript |-> << >>, timeout |-> NoTimer,
      outcome |-> "none", settles |-> 0, result |-> NoResult ]

FreeRemote == [ q |-> << >>, emitted |-> 0, updates |-> 0 ]

\* The program's heap, passed through the helpers below.
Heap == [ sessions |-> sessions, inst |-> inst, req |-> req ]

Range(s) == { s[k] : k \in 1..Len(s) }

\* Objects nothing refers to any more hold no state: the buffer of a
\* PendingRequest that has left its table, the fields of a session that has
\* left the registry and whose transport delivers no more messages, and what
\* the remote service owed on a connection that is gone.
InTable(h, r) == h.req[r].sess # 0 /\ r \in Range(h.inst[h.req[r].sess].pendingResponses)

Unreachable(h, i) ==
    /\ i \notin Range(h.sessions)
    /\ h.inst[i].ws \notin {"CONNECTING", "OPEN"}

Collect(h) ==
    [h EXCEPT
       !.req = [r \in DOMAIN h.req |->
                  IF h.req[r].sess # 0 /\ ~InTable(h, r)
                  THEN [h.req[r] EXCEPT !.text = << >>, !.textDelta = << >>,
                                        !.audioDelta = << >>,
                                        !.inputTranscript = << >>]
                  ELSE h.req[r]],
       !.inst = [i \in DOMAIN h.inst |->
                  IF h.inst[i].ws # "NONE" /\ Unreachable(h, i)
                  THEN [h.inst[i] EXCEPT !.lastActivityAt = 0,
                                         !.conversationHistory = << >>,
                                         !.instructions = DefaultInstructions]
                  ELSE h.inst[i]]]

\* The step's new heap, and what the remote service still owes.
CommitAll(h, rem) ==
    /\ sessions' = Collect(h).sessions
    /\ inst' = Collect(h).inst
    /\ req' = Collect(h).req
    /\ remote' = [i \in DOMAIN rem |->
                    IF h.inst[i].ws = "OPEN" THEN rem[i] ELSE FreeRemote]

Commit(h) == CommitAll(h, remote)

\* --------------------------------------------------------- the registry Map
\* this.sessions.get(id): the instance registered under id, 0 for undefined.
sessions_get(h, id) ==
    LET hit == { j \in Range(h.sessions) : h.inst[j].id = id }
    IN  IF hit = {} THEN 0 ELSE CHOOSE j \in hit : TRUE

\* this.sessions.set(id, sessionState): a new key goes last, an existing key
\* keeps its place and gets the new value.
sessions_set(h, id, i) ==
    IF sessions_get(h, id) = 0
    THEN [h EXCEPT !.sessions = Append(h.sessions, i)]
    ELSE [h EXCEPT !.sessions =
             [k \in 1..Len(h.sessions) |->
                 IF h.inst[h.sessions[k]].id = id THEN i ELSE h.sessions[k]]]

\* this.sessions.delete(id): removes whatever instance is registered under id.
sessions_delete(h, id) ==
    LET keep(j) == h.inst[j].id # id
    IN  [h EXCEPT !.sessions = SelectSeq(h.sessions, keep)]

\* ------------------------------------------------------ promises and timers
\* The resolve/reject functions of the promise a sendText/sendAudio call
\* returns.  A promise keeps its first settlement; every call is counted.
SettleReq(h, r, how, res) ==
    [h EXCEPT !.req[r].settles = IF @ < 3 THEN @ + 1 ELSE @,
              !.req[r].outcome = IF @ = "pending" THEN how ELSE @,
              !.req[r].result = IF h.req[r].outcome = "pending" THEN res ELSE @]

\* The resolve/reject functions of the promise createSession returns.
SettleCreate(h, i, how) ==
    [h EXCEPT !.inst[i].created = IF @ = "pending" THEN how ELSE @]

\* clearTimeout(timeout) of a request.
ClearRequestTimeout(h, r) == [h EXCEPT !.req[r].timeout = NoTimer]

\* clearTimeout(connectTimeout).
ClearConnectTimeout(h, i) == [h EXCEPT !.inst[i].connectTimeout = NoTimer]

Placeholder == << <<"[audio]", 0, 0>> >>

\* The turn pushed for the caller's input.
UserTurn(p) ==
    IF p.isAudioInput
    THEN [ role |-> "user",
           content |-> IF p.inputTranscript # << >> THEN p.inputTranscript
                       ELSE Placeholder,
           content_type |-> "audio", has_audio |-> FALSE ]
    ELSE [ role |-> "user", content |-> p.text,
           content_type |-> "none", has_audio |-> FALSE ]

\* The turn pushed for the assistant's answer.
AssistantTurn(p) ==
    [ role |-> "assistant", content |-> p.textDelta,
      content_type |-> "none", has_audio |-> Len(p.audioDelta) > 0 ]

\* ResultOf attaching the audio whatever the call asked for.
ResultOf_alwaysAudio(p) ==
    [ settled |-> TRUE,
      response_text |-> p.textDelta,
      input_transcript |-> p.inputTranscript,
      has_audio_base64 |-> TRUE,
      audio_base64 |-> p.audioDelta ]

\* The result object handed to the caller.
ResultOf(p) ==
    [ settled |-> TRUE,
      response_text |-> p.textDelta,
      input_transcript |-> p.inputTranscript,
      has_audio_base64 |-> p.returnAudio /\ Len(p.audioDelta) > 0,
      audio_base64 |-> IF p.returnAudio /\ Len(p.audioDelta) > 0
                       THEN p.audioDelta ELSE << >> ]

ErrorOf(name) == [ settled |-> TRUE, error |-> name ]

\* pending.resolve(data): clears the timeout, pushes the two turns on the
\* session the call was made on, resolves the caller's promise.
PendingResolve(h, r) ==
    LET p  == h.req[r]
        h1 == ClearRequestTimeout(h, r)
        h2 == [h1 EXCEPT !.inst[p.sess].conversationHistory =
                   Append(Append(@, UserTurn(p)), AssistantTurn(p))]
    IN  SettleReq(h2, r, "resolved", ResultOf(p))

\* pending.reject leaving the response timeout armed.
PendingReject_keepsTimer(h, r, err) == SettleReq(h, r, err, ErrorOf(err))

\* pending.reject(err): clears the timeout, rejects the caller's promise.
PendingReject(h, r, err) ==
    SettleReq(ClearRequestTimeout(h, r), r, err, ErrorOf(err))

\* session.pendingResponses.delete(requestId)
pending_delete(h, i, r) ==
    LET keep(x) == x # r
    IN  [h EXCEPT !.inst[i].pendingResponses = SelectSeq(@, keep)]

RECURSIVE RejectEach(_, _, _)
RejectEach(h, ids, err) ==
    IF ids = << >> THEN h
    ELSE RejectEach(PendingReject(h, Head(ids), err), Tail(ids), err)

\* _rejectAllPending(session, err)
_rejectAllPending(h, i, err) ==
    LET h1 == RejectEach(h, h.inst[i].pendingResponses, err)
    IN  [h1 EXCEPT !.inst[i].pendingResponses = << >>]

\* _getLatestPending(session): the entry inserted last, 0 for null.  Entries
\* are named by their request id.
_getLatestPending(h, i) ==
    LET entries == h.inst[i].pendingResponses
    IN  IF Len(entries) = 0 THEN 0 ELSE entries[Len(entries)]

\* _getLatestPendingId(session): the key inserted last, 0 for null.
_getLatestPendingId(h, i) ==
    LET keys == h.inst[i].pendingResponses
    IN  IF Len(keys) = 0 THEN 0 ELSE keys[Len(keys)]

\* _getSession without the status test.
_getSession_allowsError(h, id) ==
    LET j == sessions_get(h, id)
    IN  IF j = 0 THEN [ i |-> 0, err |-> "SessionNotFound" ]
        ELSE [ i |-> j, err |-> "none" ]

\* _getSession(sessionId): the instance, or the error it throws.
_getSession(h, id) ==
    LET j == sessions_get(h, id)
    IN  IF j = 0 THEN [ i |-> 0, err |-> "SessionNotFound" ]
        ELSE IF h.inst[j].status \in {"closed", "error"}
             THEN [ i |-> 0, err |-> "SessionUnavailable" ]
             ELSE [ i |-> j, err |-> "none" ]

\* ------------------------------------------------------------ the WebSocket
\* ws.terminate(): a socket still in its handshake is aborted (the library
\* then emits 'error' and 'close'), an open one is destroyed ('close').
ws_terminate(h, i) ==
    [h EXCEPT !.inst[i].ws =
        CASE @ = "CONNECTING" -> "ABORTING"
          [] @ = "OPEN" -> "CLOSING"
          [] OTHER -> @]

\* What ws.send does in each readyState: it throws while the handshake is
\* in progress, transmits when open, and drops the message otherwise.
ws_send(h, i) ==
    CASE h.inst[i].ws = "CONNECTING" -> "throws"
      [] h.inst[i].ws = "OPEN" -> "sent"
      [] OTHER -> "dropped"

\* ---------------------------------------------------- createSession, parts
\* createSession up to the return of its promise: the sessionState object,
\* the registry entry and the connect timer.
NewSession(h, i, id) ==
    LET h1 == [h EXCEPT !.inst[i] =
                  [ id |-> id, ws |-> "CONNECTING", status |-> "connecting",
                    lastActivityAt |-> now, conversationHistory |-> << >>,
                    pendingResponses |-> << >>,
                    connectTimeout |-> now + ConnectTimeoutTicks,
                    created |-> "pending",
                    instructions |-> DefaultInstructions,
                    voice |-> DefaultVoice ]]
    IN  sessions_set(h1, id, i)

\* OnConnectTimeout reporting success to the caller of createSession.
OnConnectTimeout_resolves(h, i) ==
    LET h1 == [h EXCEPT !.inst[i].connectTimeout = NoTimer]
        h2 == ws_terminate(h1, i)
        h3 == sessions_delete(h2, h2.inst[i].id)
    IN  SettleCreate(h3, i, "ready")

\* OnConnectTimeout with the registry entry left in place.
OnConnectTimeout_keepsEntry(h, i) ==
    LET h1 == [h EXCEPT !.inst[i].connectTimeout = NoTimer]
        h2 == ws_terminate(h1, i)
    IN  SettleCreate(h2, i, "ConnectionTimeout")

\* The connect timer's callback.
OnConnectTimeout(h, i) ==
    LET h1 == [h EXCEPT !.inst[i].connectTimeout = NoTimer]
        h2 == ws_terminate(h1, i)
        h3 == sessions_delete(h2, h2.inst[i].id)
    IN  SettleCreate(h3, i, "ConnectionTimeout")

\* OnOpen stamping the session's activity.
OnOpen_stampsActivity(h, i) ==
    LET h1 == ClearConnectTimeout(h, i)
        h2 == [h1 EXCEPT !.inst[i].status = "connected",
                         !.inst[i].lastActivityAt = now]
    IN  SettleCreate(h2, i, "ready")

\* ws.on('open')
OnOpen(h, i) ==
    LET h1 == ClearConnectTimeout(h, i)
        h2 == [h1 EXCEPT !.inst[i].status = "connected"]
    IN  SettleCreate(h2, i, "ready")

\* OnError putting the session back into its handshake state.
OnError_reconnects(h, i) ==
    LET h1 == ClearConnectTimeout(h, i)
        h2 == [h1 EXCEPT !.inst[i].status = "connecting"]
    IN  _rejectAllPending(h2, i, "TransportError")

\* OnError with the pending requests left alone.
OnError_noReject(h, i) ==
    LET h1 == ClearConnectTimeout(h, i)
    IN  [h1 EXCEPT !.inst[i].status = "error"]

\* ws.on('error')
OnError(h, i) ==
    LET h1 == ClearConnectTimeout(h, i)
        h2 == [h1 EXCEPT !.inst[i].status = "error"]
        h3 == _rejectAllPending(h2, i, "TransportError")
    IN  IF h3.inst[i].status = "connecting"
        THEN SettleCreate(sessions_delete(h3, h3.inst[i].id), i, "TransportError")
        ELSE h3

\* OnClose with the pending requests left alone.
OnClose_noReject(h, i) ==
    LET h1 == [h EXCEPT !.inst[i].status = "closed"]
    IN  sessions_delete(h1, h1.inst[i].id)

\* ws.on('close')
OnClose(h, i) ==
    LET h1 == [h EXCEPT !.inst[i].status = "closed"]
        h2 == _rejectAllPending(h1, i, "Closed")
    IN  sessions_delete(h2, h2.inst[i].id)

\* ------------------------------------------------- sendText / sendAudio, parts
\* The PendingRequest and its timer, as sendText builds them.
NewTextRequest(i, r, returnAudio) ==
    [ sess |-> i, isAudioInput |-> FALSE, returnAudio |-> returnAudio,
      text |-> << <<"text", r, 0>> >>, textDelta |-> << >>, audioDelta |-> << >>,
      inputTranscript |-> << <<"text", r, 0>> >>,
      timeout |-> now + config.responseTimeoutMs,
      outcome |-> "pending", settles |-> 0, result |-> NoResult ]

\* The PendingRequest and its timer, as sendAudio builds them.
NewAudioRequest(i, r, returnAudio) ==
    [ sess |-> i, isAudioInput |-> TRUE, returnAudio |-> returnAudio,
      text |-> << >>, textDelta |-> << >>, audioDelta |-> << >>,
      inputTranscript |-> << >>,
      timeout |-> now + config.responseTimeoutMs,
      outcome |-> "pending", settles |-> 0, result |-> NoResult ]

\* Register without the activity stamp.
Register_noStamp(h, i, r, p) ==
    LET h2 == [h EXCEPT !.req[r] = p,
                        !.inst[i].pendingResponses = Append(@, r)]
    IN  IF ws_send(h2, i) = "throws"
        THEN SettleReq(h2, r, "SendFailed", ErrorOf("SendFailed"))
        ELSE h2

\* The body both calls share once _getSession has returned instance i: the
\* activity stamp, the table entry, then the outbound messages.  A send that
\* throws does so inside the promise executor, which rejects the promise.
Register(h, i, r, p) ==
    LET h1 == [h EXCEPT !.inst[i].lastActivityAt = now]
        h2 == [h1 EXCEPT !.req[r] = p,
                         !.inst[i].pendingResponses = Append(@, r)]
    IN  IF ws_send(h2, i) = "throws"
        THEN SettleReq(h2, r, "SendFailed", ErrorOf("SendFailed"))
        ELSE h2

\* OnRequestTimeout with the table entry left in place.
OnRequestTimeout_keepsEntry(h, r) ==
    LET h1 == [h EXCEPT !.req[r].timeout = NoTimer]
    IN  SettleReq(h1, r, "RequestTimeout", ErrorOf("RequestTimeout"))

\* The timeout callback of request r.
OnRequestTimeout(h, r) ==
    LET h1 == [h EXCEPT !.req[r].timeout = NoTimer]
        h2 == pending_delete(h1, h1.req[r].sess, r)
    IN  SettleReq(h2, r, "RequestTimeout", ErrorOf("RequestTimeout"))

\* ------------------------------------------------------- _handleOpenAIEvent
TextDeltaTypes == {"response.text.delta", "response.output_text.delta"}
AudioDeltaTypes == {"response.audio.delta", "response.output_audio.delta"}
TranscriptDeltaTypes ==
    {"response.audio_transcript.delta", "response.output_audio_transcript.delta"}
InputTranscriptionType == "conversation.item.input_audio_transcription.completed"

\* _handleOpenAIEvent putting a text delta in front of the buffer.
_handleOpenAIEvent_prepends(h, i, event) ==
    LET pending == _getLatestPending(h, i)
    IN  IF event.type \in TextDeltaTypes /\ pending # 0
        THEN [h EXCEPT !.req[pending].textDelta = event.delta \o @]
        ELSE h

_handleOpenAIEvent(h, i, event) ==
    LET pending == _getLatestPending(h, i)
    IN  CASE event.type \in TextDeltaTypes ->
               IF pending # 0
               THEN [h EXCEPT !.req[pending].textDelta = @ \o event.delta]
               ELSE h
          [] event.type \in AudioDeltaTypes ->
               IF pending # 0 /\ h.req[pending].returnAudio
               THEN [h EXCEPT !.req[pending].audioDelta = @ \o event.delta]
               ELSE h
          [] event.type \in TranscriptDeltaTypes ->
               IF pending # 0 /\ h.req[pending].textDelta = << >>
               THEN [h EXCEPT !.req[pending].textDelta = @ \o event.delta]
               ELSE h
          [] event.type = InputTranscriptionType ->
               IF pending # 0 /\ h.req[pending].isAudioInput
               THEN [h EXCEPT !.req[pending].inputTranscript = event.transcript]
               ELSE h
          [] event.type = "response.done" ->
               IF pending # 0
               THEN LET requestId == _getLatestPendingId(h, i)
                        h1 == PendingResolve(h, pending)
                    IN  IF requestId # 0 THEN pending_delete(h1, i, requestId)
                        ELSE h1
               ELSE h
          [] event.type = "error" ->
               IF pending # 0
               THEN LET requestId == _getLatestPendingId(h, i)
                        h1 == PendingReject(h, pending,
                                            IF event.message # Undefined
                                            THEN event.message
                                            ELSE UnknownOpenAIError)
                    IN  IF requestId # 0 THEN pending_delete(h1, i, requestId)
                        ELSE h1
               ELSE h
          [] OTHER -> h

\* ------------------------------------------------- closeSession and the sweep
\* closeSession with the pending requests left alone.
closeSession_noReject(h, id) ==
    LET i == sessions_get(h, id)
    IN  IF i = 0 THEN h
        ELSE sessions_delete(ws_terminate(h, i), id)

\* closeSession with the registry entry left in place.
closeSession_keepsEntry(h, id) ==
    LET i == sessions_get(h, id)
    IN  IF i = 0 THEN h
        ELSE ws_terminate(_rejectAllPending(h, i, "ClosedManually"), i)

\* closeSession(sessionId) on the heap; its return value is CloseResult.
closeSession(h, id) ==
    LET i == sessions_get(h, id)
    IN  IF i = 0 THEN h
        ELSE LET h1 == _rejectAllPending(h, i, "ClosedManually")
                 h2 == ws_terminate(h1, i)
             IN  sessions_delete(h2, id)

\* CloseResult reporting success whatever the id.
CloseResult_alwaysSuccess(h, id) == "success"

CloseResult(h, id) == IF sessions_get(h, id) = 0 THEN "not_found" ELSE "success"

\* updateInstructions up to its ws.send: the two assignments on the session
\* _getSession returned.
updateInstructions(h, i, instructions) ==
    [h EXCEPT !.inst[i].instructions = instructions,
              !.inst[i].lastActivityAt = now]

\* getSession(sessionId): the summary it returns, found = FALSE for null.
getSession(h, id) ==
    LET i == sessions_get(h, id)
    IN  IF i = 0 THEN [ found |-> FALSE ]
        ELSE [ found |-> TRUE,
               session_id |-> h.inst[i].id,
               status |-> h.inst[i].status,
               voice |-> h.inst[i].voice,
               last_activity_at |-> h.inst[i].lastActivityAt,
               message_count |-> Len(h.inst[i].conversationHistory),
               instructions_preview |-> h.inst[i].instructions ]

\* getHistory on the session _getSession returned.
getHistory(h, i) ==
    [ session_id |-> h.inst[i].id,
      messages |-> h.inst[i].conversationHistory,
      total |-> Len(h.inst[i].conversationHistory) ]

\* listSessions leaving out the entry inserted last.
listSessions_dropsLast(h) ==
    [k \in 1..(Len(h.sessions) - 1) |-> getSession(h, h.inst[h.sessions[k]].id)]

\* listSessions(): the summary of every entry, in the Map's order.
listSessions(h) ==
    [k \in 1..Len(h.sessions) |-> getSession(h, h.inst[h.sessions[k]].id)]

\* The for-of loop of _cleanupIdleSessions over the live Map: an entry that
\* is deleted while it is the current one does not disturb the entries after
\* it, so the loop visits every entry that was present at its start.
RECURSIVE CleanupLoop(_, _)
CleanupLoop(h, todo) ==
    IF todo = << >> THEN h
    ELSE LET session == Head(todo)
             id == h.inst[session].id
         IN  IF now - h.inst[session].lastActivityAt > config.sessionMaxIdleMs
             THEN CleanupLoop(closeSession(h, id), Tail(todo))
             ELSE CleanupLoop(h, Tail(todo))

\* _cleanupIdleSessions looking at the first entry only.
_cleanupIdleSessions_firstOnly(h) ==
    CleanupLoop(h, IF h.sessions = << >> THEN << >> ELSE << Head(h.sessions) >>)

_cleanupIdleSessions(h) == CleanupLoop(h, h.sessions)

\* ------------------------------------------------------------ audio utils
\* A Buffer is a sequence of bytes (0..255).  A base64 string is the sequence
\* of its characters, each written as the 6-bit value it stands for, with
\* Pad for '='.
Pad == 64

\* buf.toString('base64'): three bytes make four characters; a last group of
\* one or two bytes is padded with '='.
RECURSIVE toString_base64(_)
toString_base64(buf) ==
    IF buf = << >> THEN << >>
    ELSE IF Len(buf) = 1
    THEN << buf[1] \div 4, (buf[1] % 4) * 16, Pad, Pad >>
    ELSE IF Len(buf) = 2
    THEN << buf[1] \div 4, (buf[1] % 4) * 16 + buf[2] \div 16,
            (buf[2] % 16) * 4, Pad >>
    ELSE << buf[1] \div 4, (buf[1] % 4) * 16 + buf[2] \div 16,
            (buf[2] % 16) * 4 + buf[3] \div 64, buf[3] % 64 >>
         \o toString_base64(SubSeq(buf, 4, Len(buf)))

\* The characters of a base64 string before its first '='.
RECURSIVE BeforePad(_)
BeforePad(str) ==
    IF str = << >> \/ Head(str) = Pad THEN << >>
    ELSE << Head(str) >> \o BeforePad(Tail(str))

\* Four characters make three bytes; a last group of two or three characters
\* makes one or two bytes, and a single left-over character makes none.
RECURSIVE DecodeSextets(_)
DecodeSextets(s) ==
    IF Len(s) < 2 THEN << >>
    ELSE IF Len(s) = 2
    THEN << s[1] * 4 + s[2] \div 16 >>
    ELSE IF Len(s) = 3
    THEN << s[1] * 4 + s[2] \div 16, (s[2] % 16) * 16 + s[3] \div 4 >>
    ELSE << s[1] * 4 + s[2] \div 16, (s[2] % 16) * 16 + s[3] \div 4,
            (s[3] % 4) * 64 + s[4] >>
         \o DecodeSextets(SubSeq(s, 5, Len(s)))

\* Buffer.from(str, 'base64'): decoding stops at the first '='.
Buffer_from_base64(str) == DecodeSextets(BeforePad(str))

\* buf.slice(start)
slice(buf, start) == SubSeq(buf, start + 1, Len(buf))

\* What a function of the module hands back: a value, or the RangeError
\* (ERR_OUT_OF_RANGE) of a Buffer write.
Returns(data) == [thrown |-> FALSE, data |-> data]
RangeError == [thrown |-> TRUE, data |-> << >>]

\* The bound checks of writeUInt16LE / writeUInt32LE on the value num/den
\* (a JavaScript number, which may have a fraction): the write throws unless
\* 0 <= value <= 2^(8*width) - 1.
UInt16Max == 65535
InRange(num, den, width) ==
    /\ num >= 0
    /\ IF width = 2 THEN num <= UInt16Max * den
       ELSE (num \div den) \div (UInt16Max + 1) <= UInt16Max

\* The bytes a write stores for an in-range value: the value's integer part,
\* least significant byte first.
LittleEndian(num, den, width) ==
    [k \in 1..width |-> ((num \div den) \div (256 ^ (k - 1))) % 256]

\* header.write('RIFF'), 'WAVE', 'fmt ', 'data' as ASCII bytes.
RIFF == << 82, 73, 70, 70 >>
WAVE == << 87, 65, 86, 69 >>
fmt == << 102, 109, 116, 32 >>
data == << 100, 97, 116, 97 >>

headerSize == 44
DefaultSampleRate == 24000
DefaultNumChannels == 1
DefaultBitsPerSample == 16

\* addWavHeader with the 'data' tag left out of the header.
addWavHeader_noDataTag(pcmData, sampleRate, numChannels, bitsPerSample) ==
    Returns(RIFF \o LittleEndian(36 + Len(pcmData), 1, 4) \o WAVE \o fmt
            \o LittleEndian(16, 1, 4) \o LittleEndian(1, 1, 2)
            \o LittleEndian(numChannels, 1, 2)
            \o LittleEndian(sampleRate, 1, 4)
            \o LittleEndian(sampleRate * numChannels * bitsPerSample, 8, 4)
            \o LittleEndian(numChannels * bitsPerSample, 8, 2)
            \o LittleEndian(bitsPerSample, 1, 2)
            \o LittleEndian(Len(pcmData), 1, 4) \o pcmData)

\* addWavHeader(pcmData, sampleRate, numChannels, bitsPerSample).  byteRate
\* and blockAlign are kept in eighths, since bitsPerSample / 8 need not be
\* whole.  The writes run in header order and the first one out of range
\* throws.
addWavHeader(pcmData, sampleRate, numChannels, bitsPerSample) ==
    LET dataSize == Len(pcmData)
        byteRate8 == sampleRate * numChannels * bitsPerSample
        blockAlign8 == numChannels * bitsPerSample
    IN  IF ~(/\ InRange(36 + dataSize, 1, 4)
             /\ InRange(numChannels, 1, 2)
             /\ InRange(sampleRate, 1, 4))
        THEN RangeError
        ELSE IF ~(/\ InRange(byteRate8, 8, 4)
                  /\ InRange(blockAlign8, 8, 2)
                  /\ InRange(bitsPerSample, 1, 2)
                  /\ InRange(dataSize, 1, 4))
        THEN RangeError
        ELSE Returns(RIFF \o LittleEndian(36 + dataSize, 1, 4) \o WAVE \o fmt
                     \o LittleEndian(16, 1, 4) \o LittleEndian(1, 1, 2)
                     \o LittleEndian(numChannels, 1, 2)
                     \o LittleEndian(sampleRate, 1, 4)
                     \o LittleEndian(byteRate8, 8, 4)
                     \o LittleEndian(blockAlign8, 8, 2)
                     \o LittleEndian(bitsPerSample, 1, 2)
                     \o data \o LittleEndian(dataSize, 1, 4) \o pcmData)

\* pcm16ToWavBase64(pcm16Base64, sampleRate)
pcm16ToWavBase64(pcm16Base64, sampleRate) ==
    LET pcmBuffer == Buffer_from_base64(pcm16Base64)
        wavBuffer == addWavHeader(pcmBuffer, sampleRate, DefaultNumChannels,
                                  DefaultBitsPerSample)
    IN  IF wavBuffer.thrown THEN RangeError
        ELSE Returns(toString_base64(wavBuffer.data))

\* wavBase64ToPcm16Base64(wavBase64)
wavBase64ToPcm16Base64(wavBase64) ==
    LET wavBuffer == Buffer_from_base64(wavBase64)
        pcmData == slice(wavBuffer, headerSize)
    IN  toString_base64(pcmData)

\* The arguments callers pass: byte values with every bit pattern of a
\* base64 character boundary, sample rates and layouts in and out of range.
ByteSamples == {0, 165, 255}
SampleRates == {-1, 8000, 11025, DefaultSampleRate}
ChannelCounts == {DefaultNumChannels, 2, UInt16Max + 1}
SampleSizes == {8, 12, DefaultBitsPerSample}
PcmInputs == UNION {[1..n -> ByteSamples] : n \in 0..MaxPcmLen}

\* The audio utilities keep no state; audio holds the arguments of a call
\* and what each function returned.  It also holds the arguments of a
\* sendAudio call whose outbound messages are followed one by one (the length
\* of audioBase64, options.returnAudio, the transport's readyState) and the
\* effects of that call in the order the code performs them.
NoAudio ==
    [ call |-> "none", pcmData |-> << >>, sampleRate |-> DefaultSampleRate,
      numChannels |-> DefaultNumChannels,
      bitsPerSample |-> DefaultBitsPerSample,
      header |-> Returns(<< >>), wavBase64 |-> Returns(<< >>),
      pcm16Base64 |-> << >>,
      audioLength |-> 0, returnAudio |-> TRUE, readyState |-> "OPEN",
      effects |-> << >> ]

AudioInputs ==
    { [NoAudio EXCEPT !.call = "input", !.pcmData = p, !.sampleRate = sr,
                      !.numChannels = ch, !.bitsPerSample = bits] :
        p \in PcmInputs, sr \in SampleRates, ch \in ChannelCounts,
        bits \in SampleSizes }

\* ------------------------------------------- sendAudio's outbound messages
\* const CHUNK_SIZE = 15000
CHUNK_SIZE == 15000

\* An outbound message; an append carries audioBase64.slice(from, to), the
\* characters at positions from .. to - 1.
Message(type) == [type |-> type, from |-> 0, to |-> 0]
AppendMessage(from, to) ==
    [type |-> "input_audio_buffer.append", from |-> from, to |-> to]

\* audioBase64.slice(i, i + CHUNK_SIZE): the end is clamped to the length.
SliceEnd(length, i) == IF i + CHUNK_SIZE < length THEN i + CHUNK_SIZE ELSE length

\* The chunk loop sending only the chunks that are CHUNK_SIZE long.
RECURSIVE AudioChunks_wholeOnly(_, _)
AudioChunks_wholeOnly(length, i) ==
    IF i + CHUNK_SIZE <= length
    THEN << AppendMessage(i, i + CHUNK_SIZE) >>
         \o AudioChunks_wholeOnly(length, i + CHUNK_SIZE)
    ELSE << >>

\* for (let i = 0; i < audioBase64.length; i += CHUNK_SIZE) ws.send(append)
RECURSIVE AudioChunks(_, _)
AudioChunks(length, i) ==
    IF i < length
    THEN << AppendMessage(i, SliceEnd(length, i)) >>
         \o AudioChunks(length, i + CHUNK_SIZE)
    ELSE << >>

\* The effects of sendAudio's promise executor in program order: the table
\* entry first, then the ws.send calls.  On a transport still in its
\* handshake the first ws.send throws and ends the executor; on one that is
\* closing every ws.send drops its message.
sendAudioEffects(readyState, length) ==
    LET sends == << Message("input_audio_buffer.clear") >>
                 \o AudioChunks(length, 0)
                 \o << Message("input_audio_buffer.commit"),
                       Message("response.create") >>
    IN  << Message("pendingResponses.set") >>
        \o CASE readyState = "OPEN" -> sends
             [] readyState = "CONNECTING" -> << Message("throw") >>
             [] OTHER -> << >>

\* The lengths of audioBase64 callers pass, around the multiples of
\* CHUNK_SIZE.
AudioLengths ==
    {0, 4, CHUNK_SIZE - 4, CHUNK_SIZE, CHUNK_SIZE + 4, 2 * CHUNK_SIZE - 4,
     2 * CHUNK_SIZE, 2 * CHUNK_SIZE + 4, 3 * CHUNK_SIZE, 3 * CHUNK_SIZE + 4}

SendAudioInputs ==
    { [NoAudio EXCEPT !.call = "input", !.audioLength = n, !.returnAudio = ra,
                      !.readyState = rs] :
        n \in AudioLengths, ra \in BOOLEAN,
        rs \in {"CONNECTING", "OPEN", "CLOSING"} }

\* ------------------------------------------------------------------- Init
InitManager(cfgs, lim, sweepAt) ==
    /\ now = 0
    /\ config \in cfgs
    /\ limits = lim
    /\ nextSweep = sweepAt
    /\ sessions = << >>
    /\ inst = [i \in Inst |-> FreeInst]
    /\ nInst = 0
    /\ req = [r \in Req |-> FreeReq]
    /\ nReq = 0
    /\ remote = [i \in Inst |-> FreeRemote]
    /\ lastRes = "none"

\* The session manager at construction; no audio utility has been called.
InitWith(cfgs, lim, sweepAt) ==
    /\ InitManager(cfgs, lim, sweepAt)
    /\ audio = NoAudio

\* The scope of a run: how many instances and requests it builds, how many
\* deltas a response has, and the operations whose outcome lastRes records.
\* A run makes no updateInstructions call that reaches the transport unless
\* its scope says so (see WithUpdates).
Scope(i, r, d, res) ==
    [inst |-> i, req |-> r, deltas |-> d, results |-> res,
     upd |-> 0, texts |-> {DefaultInstructions}, time |-> MaxTime]

\* The scope lim with a clock that runs until t.
WithClock(lim, t) == [lim EXCEPT !.time = t]

\* The scope lim with n updateInstructions calls per connection, passing
\* NewInstructions.
WithUpdates(lim, n) == [lim EXCEPT !.upd = n, !.texts = {NewInstructions}]

\* What lastRes records of a caller operation's outcome.
Returned(op, res) == IF op \in limits.results THEN res ELSE "none"

\* A timer whose deadline has come.
Due(deadline) == deadline # NoTimer /\ deadline <= now

\* --------------------------------------------------------- caller operations
\* AtCapacity with the comparison off by one.
AtCapacity_offByOne ==
    config.maxSessions > 0 /\ Len(sessions) > config.maxSessions

\* The capacity test createSession starts with.
AtCapacity ==
    config.maxSessions > 0 /\ Len(sessions) >= config.maxSessions

\* createSession({sessionId: sid}); sid = NoId when the caller supplies none.
CreateSession(sid) ==
    IF AtCapacity
    THEN /\ lastRes' = Returned("createSession", "LimitExceeded")
         /\ UNCHANGED <<now, config, nextSweep, sessions, inst, nInst, req,
                        nReq, remote, limits, audio>>
    ELSE /\ nInst < limits.inst
         /\ LET i == nInst + 1
                id == IF sid = NoId THEN Uuid(i) ELSE sid
            IN  Commit(NewSession(Heap, i, id))
         /\ nInst' = nInst + 1
         /\ lastRes' = Returned("createSession", "pending")
         /\ UNCHANGED <<now, config, nextSweep, nReq, limits, audio>>

\* sendText (isAudio FALSE) or sendAudio (isAudio TRUE): the two differ in
\* the PendingRequest they build.
Send(id, isAudio, returnAudio) ==
    LET got == _getSession(Heap, id)
    IN  IF got.err # "none"
        THEN /\ lastRes' = Returned("send", got.err)
             /\ UNCHANGED <<now, config, nextSweep, sessions, inst, nInst, req,
                            nReq, remote, limits, audio>>
        ELSE /\ nReq < limits.req
             /\ LET r == nReq + 1
                    p == IF isAudio THEN NewAudioRequest(got.i, r, returnAudio)
                                ELSE NewTextRequest(got.i, r, returnAudio)
                IN  CommitAll(Register(Heap, got.i, r, p),
                              IF ws_send(Heap, got.i) = "sent"
                              THEN [remote EXCEPT ![got.i].q = Append(@, r)]
                              ELSE remote)
             /\ nReq' = nReq + 1
             /\ lastRes' = Returned("send", "pending")
             /\ UNCHANGED <<now, config, nextSweep, nInst, limits, audio>>

\* sendText(id, text, {returnAudio})
SendText(id, returnAudio) == Send(id, FALSE, returnAudio)

\* sendAudio(id, audioBase64, {returnAudio})
SendAudio(id, returnAudio) == Send(id, TRUE, returnAudio)

\* closeSession(id)
CloseSession(id) ==
    /\ Commit(closeSession(Heap, id))
    /\ lastRes' = Returned("closeSession", CloseResult(Heap, id))
    /\ UNCHANGED <<now, config, nextSweep, nInst, nReq, limits, audio>>

\* updateInstructions(id, text).  The async function rejects when ws.send
\* throws; the assignments before it have been made by then.
UpdateInstructions(id, text) ==
    LET got == _getSession(Heap, id)
    IN  IF got.err # "none"
        THEN /\ lastRes' = Returned("updateInstructions", got.err)
             /\ UNCHANGED <<now, config, nextSweep, sessions, inst, nInst, req,
                            nReq, remote, limits, audio>>
        ELSE LET h1 == updateInstructions(Heap, got.i, text)
                 sent == ws_send(h1, got.i)
             IN  /\ sent = "sent" => remote[got.i].updates < 1 + limits.upd
                 /\ CommitAll(h1, IF sent = "sent"
                                  THEN [remote EXCEPT ![got.i].updates = @ + 1]
                                  ELSE remote)
                 /\ lastRes' = Returned("updateInstructions",
                                        IF sent = "throws" THEN "SendFailed"
                                        ELSE "success")
                 /\ UNCHANGED <<now, config, nextSweep, nInst, nReq, limits, audio>>

\* getSession(id): reads only.
GetSession(id) ==
    /\ lastRes' = Returned("getSession",
                           IF getSession(Heap, id).found
                           THEN getSession(Heap, id).status ELSE "null")
    /\ UNCHANGED <<now, config, nextSweep, sessions, inst, nInst, req, nReq,
                   remote, limits, audio>>

\* getHistory(id): reads only, after _getSession.
GetHistory(id) ==
    /\ lastRes' = Returned("getHistory",
                           IF _getSession(Heap, id).err # "none"
                           THEN _getSession(Heap, id).err ELSE "history")
    /\ UNCHANGED <<now, config, nextSweep, sessions, inst, nInst, req, nReq,
                   remote, limits, audio>>

\* listSessions(): reads only.
ListSessions ==
    /\ lastRes' = Returned("listSessions", "list")
    /\ UNCHANGED <<now, config, nextSweep, sessions, inst, nInst, req, nReq,
                   remote, limits, audio>>

\* ------------------------------------------------------------------- timers
ConnectTimeout(i) ==
    /\ Due(inst[i].connectTimeout)
    /\ Commit(OnConnectTimeout(Heap, i))
    /\ UNCHANGED <<now, config, nextSweep, nInst, nReq, lastRes, limits, audio>>

RequestTimeout(r) ==
    /\ Due(req[r].timeout)
    /\ Commit(OnRequestTimeout(Heap, r))
    /\ UNCHANGED <<now, config, nextSweep, nInst, nReq, lastRes, limits, audio>>

CleanupIdleSessions ==
    /\ now = nextSweep
    /\ nextSweep' = now + CleanupIntervalTicks
    /\ Commit(_cleanupIdleSessions(Heap))
    /\ UNCHANGED <<now, config, nInst, nReq, lastRes, limits, audio>>

\* Time passes: no timer is overdue and no aborted handshake is waiting to
\* report (the library reports it before the loop goes back to waiting).
Tick ==
    /\ now < limits.time
    /\ now # nextSweep
    /\ \A i \in Inst : ~Due(inst[i].connectTimeout) /\ inst[i].ws # "ABORTING"
    /\ \A r \in Req : ~Due(req[r].timeout)
    /\ now' = now + 1
    /\ UNCHANGED <<config, nextSweep, sessions, inst, nInst, req, nReq, remote,
                   lastRes, limits, audio>>

\* --------------------------------------------------------- transport events
WsOpen(i) ==
    /\ inst[i].ws = "CONNECTING"
    /\ CommitAll(OnOpen([Heap EXCEPT !.inst[i].ws = "OPEN"], i),
                 [remote EXCEPT ![i].updates = 1])
    /\ UNCHANGED <<now, config, nextSweep, nInst, nReq, lastRes, limits, audio>>

WsError(i) ==
    /\ inst[i].ws \in {"CONNECTING", "OPEN", "ABORTING"}
    /\ Commit(OnError([Heap EXCEPT !.inst[i].ws = "CLOSING"], i))
    /\ UNCHANGED <<now, config, nextSweep, nInst, nReq, lastRes, limits, audio>>

WsClose(i) ==
    /\ inst[i].ws \in {"OPEN", "CLOSING"}
    /\ Commit(OnClose([Heap EXCEPT !.inst[i].ws = "CLOSED"], i))
    /\ UNCHANGED <<now, config, nextSweep, nInst, nReq, lastRes, limits, audio>>

\* The remote service works on the responses it was asked for in the order
\* it was asked, one at a time; every event it emits is delivered at once.
\* A delta's token names the response it belongs to and its place in it.
Owed(i) == inst[i].ws = "OPEN" /\ remote[i].q # << >>

Deliver(i, event, rem) ==
    /\ CommitAll(_handleOpenAIEvent(Heap, i, event), rem)
    /\ UNCHANGED <<now, config, nextSweep, nInst, nReq, lastRes, limits, audio>>

RemoteDelta(i, kind, type) ==
    /\ Owed(i)
    /\ remote[i].emitted < limits.deltas
    /\ LET c == Head(remote[i].q)
           k == remote[i].emitted + 1
       IN  Deliver(i, [type |-> type, delta |-> << <<kind, c, k>> >>],
                   [remote EXCEPT ![i].emitted = @ + 1])

RemoteTextDelta(i) == \E t \in TextDeltaTypes : RemoteDelta(i, "text", t)

RemoteAudioDelta(i) == \E t \in AudioDeltaTypes : RemoteDelta(i, "audio", t)

RemoteTranscriptDelta(i) ==
    \E t \in TranscriptDeltaTypes : RemoteDelta(i, "spoken", t)

RemoteInputTranscription(i) ==
    /\ Owed(i)
    /\ remote[i].emitted < limits.deltas
    /\ req[Head(remote[i].q)].isAudioInput
    /\ LET c == Head(remote[i].q)
       IN  Deliver(i, [type |-> InputTranscriptionType,
                       transcript |-> << <<"heard", c, 0>> >>],
                   [remote EXCEPT ![i].emitted = @ + 1])

RemoteEnd(i, type) ==
    /\ Owed(i)
    /\ Deliver(i, [type |-> type],
               [remote EXCEPT ![i].q = Tail(@), ![i].emitted = 0])

RemoteDone(i) == RemoteEnd(i, "response.done")

\* An error event, with or without error.message.
RemoteErrorEvent(i) ==
    \E message \in {RemoteMessage, Undefined} :
        /\ Owed(i)
        /\ Deliver(i, [type |-> "error", message |-> message],
                   [remote EXCEPT ![i].q = Tail(@), ![i].emitted = 0])

Next ==
    \/ \E sid \in SuppliedIds \cup {NoId} : CreateSession(sid)
    \/ \E id \in AllIds, ra \in BOOLEAN : SendText(id, ra)
    \/ \E id \in AllIds, ra \in BOOLEAN : SendAudio(id, ra)
    \/ \E id \in AllIds : CloseSession(id)
    \/ \E id \in AllIds, text \in limits.texts : UpdateInstructions(id, text)
    \/ \E id \in AllIds : GetSession(id)
    \/ \E id \in AllIds : GetHistory(id)
    \/ ListSessions
    \/ \E i \in Inst : ConnectTimeout(i)
    \/ \E r \in Req : RequestTimeout(r)
    \/ CleanupIdleSessions
    \/ Tick
    \/ \E i \in Inst : WsOpen(i)
    \/ \E i \in Inst : WsError(i)
    \/ \E i \in Inst : WsClose(i)
    \/ \E i \in Inst : RemoteTextDelta(i)
    \/ \E i \in Inst : RemoteAudioDelta(i)
    \/ \E i \in Inst : RemoteTranscriptDelta(i)
    \/ \E i \in Inst : RemoteInputTranscription(i)
    \/ \E i \in Inst : RemoteDone(i)
    \/ \E i \in Inst : RemoteErrorEvent(i)

\* The cleanup interval fires at tick FirstSweep: the manager was
\* constructed CleanupIntervalTicks - FirstSweep ticks before the run starts.
FirstSweep == CleanupIntervalTicks - 2

\* Registry scope: several sessions, one request.
Init == InitWith({Unlimited}, Scope(MaxInst, 1, MaxDeltas, {}), FirstSweep)
Spec == Init /\ [][Next]_vars

\* Dispatch scope: one session, several requests.
InitDispatch == InitWith({Unlimited}, Scope(1, MaxReq, MaxDeltas, {}), FirstSweep)
SpecDispatch == InitDispatch /\ [][Next]_vars

\* Capacity scope: the registry under each session limit, results recorded.
InitCapacity ==
    InitWith({Unlimited, Limited(1), Limited(2)}, Scope(MaxInst, 1, MaxDeltas, {"createSession"}),
             FirstSweep)
SpecCapacity == InitCapacity /\ [][Next]_vars

\* Caller scope: one session, one request, updateInstructions reaching
\* the transport, and the outcome of every caller operation recorded.
CallerOps ==
    {"createSession", "send", "closeSession", "updateInstructions",
     "getSession", "getHistory", "listSessions"}
InitCaller ==
    InitWith({Unlimited}, WithUpdates(Scope(1, 1, MaxDeltas, CallerOps), 1),
             FirstSweep)
SpecCaller == InitCaller /\ [][Next]_vars

\* ------------------------------------------------------ audio utility calls
managerVars ==
    <<now, config, nextSweep, sessions, inst, nInst, req, nReq, remote,
      lastRes, limits>>

\* A caller builds a container around raw PCM with an explicit layout.
AddWavHeader ==
    /\ audio.call = "input"
    /\ audio' = [audio EXCEPT
                   !.call = "addWavHeader",
                   !.header = addWavHeader(audio.pcmData, audio.sampleRate,
                                           audio.numChannels,
                                           audio.bitsPerSample)]
    /\ UNCHANGED managerVars

\* A caller converts base64 PCM to a base64 container.
Pcm16ToWavBase64 ==
    /\ audio.call = "input"
    /\ audio' = [audio EXCEPT
                   !.call = "pcm16ToWavBase64",
                   !.wavBase64 = pcm16ToWavBase64(toString_base64(audio.pcmData),
                                                  audio.sampleRate)]
    /\ UNCHANGED managerVars

\* A caller strips the container it got.
WavBase64ToPcm16Base64 ==
    /\ audio.call = "pcm16ToWavBase64"
    /\ ~audio.wavBase64.thrown
    /\ audio' = [audio EXCEPT
                   !.call = "wavBase64ToPcm16Base64",
                   !.pcm16Base64 = wavBase64ToPcm16Base64(audio.wavBase64.data)]
    /\ UNCHANGED managerVars

NextAudio ==
    \/ AddWavHeader
    \/ Pcm16ToWavBase64
    \/ WavBase64ToPcm16Base64

\* Audio scope: the utilities applied to every input of the bounded sets.
InitAudio ==
    /\ InitManager({Unlimited}, Scope(1, 1, MaxDeltas, {}), FirstSweep)
    /\ audio \in AudioInputs
SpecAudio == InitAudio /\ [][NextAudio]_vars

\* ------------------------------------------------- sendAudio, step by step
\* sendAudio(sessionId, audioBase64, options) on a session _getSession let
\* through: what its executor does, in order.
SendAudioMessages ==
    /\ audio.call = "input"
    /\ audio' = [audio EXCEPT
                   !.call = "sendAudio",
                   !.effects = sendAudioEffects(audio.readyState,
                                                audio.audioLength)]
    /\ UNCHANGED managerVars

\* The call has returned; the caller makes the next one.
NextAudioInput ==
    /\ audio.call = "sendAudio"
    /\ audio' \in SendAudioInputs
    /\ UNCHANGED managerVars

NextSendAudio == SendAudioMessages \/ NextAudioInput

\* Outbound scope: sendAudio on audio of every length of AudioLengths.
InitSendAudio ==
    /\ InitManager({Unlimited}, Scope(1, 1, MaxDeltas, {}), FirstSweep)
    /\ audio \in SendAudioInputs
SpecSendAudio == InitSendAudio /\ [][NextSendAudio]_vars

\* Read scope: several sessions, the outcome of every read recorded.
ReadOps == {"getSession", "listSessions"}
InitReads == InitWith({Unlimited}, Scope(MaxInst, 1, MaxDeltas, ReadOps), FirstSweep)
SpecReads == InitReads /\ [][Next]_vars

\* ------------------------------------------------------------ HTTP routes
\* A voice a caller asks to switch to.
OtherVoice == "nova"

\* POST /sessions/:id/update with body {instructions, voice}: 400 when the
\* body carries neither; updateInstructions when it carries instructions; the
\* voice is read for the reply only.  A throw of updateInstructions is
\* answered 404 for "no encontrada" and 500 otherwise.
PostUpdate(id, instructions, voice) ==
    IF instructions = Undefined /\ voice = Undefined
    THEN /\ lastRes' = Returned("postUpdate", "400")
         /\ UNCHANGED <<now, config, nextSweep, sessions, inst, nInst, req,
                        nReq, remote, limits, audio>>
    ELSE LET updated == IF instructions = Undefined THEN "updated:voice"
                        ELSE IF voice = Undefined THEN "updated:instructions"
                        ELSE "updated:instructions,voice"
             got == _getSession(Heap, id)
         IN  IF instructions = Undefined
             THEN /\ lastRes' = Returned("postUpdate", updated)
                  /\ UNCHANGED <<now, config, nextSweep, sessions, inst, nInst,
                                 req, nReq, remote, limits, audio>>
             ELSE IF got.err # "none"
             THEN /\ lastRes' = Returned("postUpdate",
                                         IF got.err = "SessionNotFound"
                                         THEN "404" ELSE "500")
                  /\ UNCHANGED <<now, config, nextSweep, sessions, inst, nInst,
                                 req, nReq, remote, limits, audio>>
             ELSE LET h1 == updateInstructions(Heap, got.i, instructions)
                      sent == ws_send(h1, got.i)
                  IN  /\ sent = "sent" => remote[got.i].updates < 1 + limits.upd
                      /\ CommitAll(h1, IF sent = "sent"
                                       THEN [remote EXCEPT ![got.i].updates = @ + 1]
                                       ELSE remote)
                      /\ lastRes' = Returned("postUpdate",
                                             IF sent = "throws" THEN "500"
                                             ELSE updated)
                      /\ UNCHANGED <<now, config, nextSweep, nInst, nReq,
                                     limits, audio>>

\* The session manager behind its HTTP routes.
NextRoutes ==
    \/ Next
    \/ \E id \in AllIds, instructions \in limits.texts \cup {Undefined},
          voice \in {OtherVoice, Undefined} :
           PostUpdate(id, instructions, voice)

\* Route scope: one session, one request, the reply of the update route
\* recorded.
InitRoutes ==
    InitWith({Unlimited}, WithUpdates(Scope(1, 1, MaxDeltas, {"postUpdate"}), 1),
             FirstSweep)
SpecRoutes == InitRoutes /\ [][NextRoutes]_vars

\* Streaming scope: one session, one request, responses of several deltas.
InitStream == InitWith({Unlimited}, Scope(1, 1, MaxStreamDeltas, {}), FirstSweep)
SpecStream == InitStream /\ [][Next]_vars

\* Fair delivery: the clock advances, every timer that is due fires, a
\* handshake that was aborted delivers its error event and a transport that
\* is closing delivers its close event.  Whether the remote end answers the
\* handshake, and whether a transport fails, is left open.
Fairness ==
    /\ WF_vars(Tick)
    /\ WF_vars(CleanupIdleSessions)
    /\ \A i \in Inst :
           /\ WF_vars(ConnectTimeout(i))
           /\ WF_vars(inst[i].ws = "ABORTING" /\ WsError(i))
           /\ WF_vars(WsClose(i))
    /\ \A r \in Req : WF_vars(RequestTimeout(r))

\* Liveness scope: one session, one request, fair timers and transport.
\* One session under the Patient configuration, with a clock long enough for
\* the session to pass the idle threshold and a sweep at that moment.
SweepWhenIdle == CleanupIntervalTicks - 1
InitIdle ==
    InitWith({Patient}, WithClock(Scope(1, 2, MaxDeltas, {}), MaxIdleTime),
             SweepWhenIdle)
SpecIdle == InitIdle /\ [][Next]_vars

InitLive == InitWith({Unlimited}, Scope(1, 1, MaxDeltas, {}), FirstSweep)
SpecLive == InitLive /\ [][Next]_vars /\ Fairness

\* ------------------------------------------------------------------ claims
\* Any event the remote service emits on the transport of instance i.
RemoteStep(i) ==
    \/ RemoteTextDelta(i)
    \/ RemoteAudioDelta(i)
    \/ RemoteTranscriptDelta(i)
    \/ RemoteInputTranscription(i)
    \/ RemoteDone(i)
    \/ RemoteErrorEvent(i)

\* The response a token was generated for.
CauseOf(token) == token[2]

FromOwnResponse(r, string) == \A k \in 1..Len(string) : CauseOf(string[k]) = r

\* C1: a PendingRequest is settled at most once, and once it is settled it
\* is no longer in its session's pending table.
C1_SettledOnceAndGone ==
    \A r \in Req :
        /\ req[r].settles <= 1
        /\ req[r].settles = 1 => ~InTable(Heap, r)

\* C2: when the timeout of a call fires, a call that is still awaiting its
\* answer is rejected with RequestTimeout, and in every case its request id
\* is out of the pending table afterwards while the registry and the
\* session's status and history are unchanged.
C2_TimeoutRejects ==
    [][\A r \in Req :
          RequestTimeout(r) =>
              /\ req[r].outcome = "pending" => req'[r].outcome = "RequestTimeout"
              /\ ~InTable(Heap', r)
              /\ sessions' = sessions
              /\ inst'[req[r].sess].status = inst[req[r].sess].status
              /\ inst'[req[r].sess].conversationHistory =
                     inst[req[r].sess].conversationHistory]_vars

C2_Witness ==
    \E r \in Req :
        /\ req[r].outcome = "RequestTimeout"
        /\ ~InTable(Heap, r)
        /\ req[r].sess \in Range(sessions)
        /\ inst[req[r].sess].status = "connected"

\* The calls of instance i that are in its table and still await an answer.
InFlight(i) == { r \in Range(inst[i].pendingResponses) : req[r].outcome = "pending" }

\* C3: an event of an exchange whose request has timed out is dropped: it
\* changes no PendingRequest, no pending table and no history (stated for a
\* table all of whose entries still await their answer).
C3_LateEventsDropped ==
    [][\A i \in Inst :
          (/\ Owed(i)
           /\ req[Head(remote[i].q)].outcome = "RequestTimeout"
           /\ InFlight(i) = Range(inst[i].pendingResponses)
           /\ RemoteStep(i)) => UNCHANGED <<sessions, inst, req>>]_vars

\* C4: a session never has more than one call in flight, that is, in its
\* pending table and still awaiting its answer.
C4_OneInFlight == \A i \in Inst : Cardinality(InFlight(i)) <= 1

\* C5: what a call accumulates, and what it is resolved with, was generated
\* for that call.
C5_EventsAttributedToCause ==
    \A r \in Req :
        /\ FromOwnResponse(r, req[r].textDelta)
        /\ FromOwnResponse(r, req[r].audioDelta)
        /\ req[r].outcome = "resolved" =>
               FromOwnResponse(r, req[r].result.response_text)

\* C6: a session id names at most one session whose transport is in use.
C6_OneLiveSessionPerId ==
    \A i, j \in Inst :
        (/\ i # j
         /\ inst[i].ws \in {"CONNECTING", "OPEN"}
         /\ inst[j].ws \in {"CONNECTING", "OPEN"}) => inst[i].id # inst[j].id

\* C7: with a session limit set, the registry never holds more sessions than
\* the limit, and createSession throws LimitExceeded exactly when a limit is
\* set and the registry already holds that many sessions.
C7_CapacityRespected ==
    /\ [](config.maxSessions > 0 => Len(sessions) <= config.maxSessions)
    /\ [][\A sid \in SuppliedIds \cup {NoId} :
             CreateSession(sid) =>
                 (lastRes' = "LimitExceeded" <=>
                      (config.maxSessions > 0
                         /\ Len(sessions) >= config.maxSessions))]_vars

C7_Witness ==
    /\ lastRes = "LimitExceeded"
    /\ Len(sessions) = config.maxSessions
    /\ nInst < limits.inst

\* C8: when the connect timer fires, createSession fails with
\* ConnectionTimeout and the session is out of the registry: getSession(id)
\* finds nothing and the instance no longer counts toward the limit.
C8_ConnectTimeoutDiscards ==
    [][\A i \in Inst :
          ConnectTimeout(i) =>
              /\ inst'[i].created = "ConnectionTimeout"
              /\ sessions_get(Heap', inst[i].id) = 0
              /\ i \notin Range(sessions')
              /\ Len(sessions') <= Len(sessions)]_vars

C8_Witness ==
    \E i \in Inst :
        /\ inst[i].created = "ConnectionTimeout"
        /\ i \notin Range(sessions)
        /\ sessions_get(Heap, inst[i].id) = 0

\* C9: a transport error on a session that is still connecting removes the
\* session from the registry and fails createSession with that error.
C9_ErrorBeforeConnectedDiscards ==
    [][\A i \in Inst :
          (/\ WsError(i)
           /\ inst[i].status = "connecting"
           /\ inst[i].created = "pending") =>
              /\ i \notin Range(sessions')
              /\ inst'[i].created = "TransportError"]_vars

\* C10: on transport close the session's status is closed, its pending
\* table is empty, every call that was awaiting an answer is rejected with
\* the closed error and has no timer left, and the session is out of the
\* registry.
C10_CloseCascades ==
    [][\A i \in Inst :
          WsClose(i) =>
              /\ inst'[i].status = "closed"
              /\ inst'[i].pendingResponses = << >>
              /\ \A r \in Range(inst[i].pendingResponses) :
                    /\ req[r].outcome = "pending" => req'[r].outcome = "Closed"
                    /\ req'[r].outcome # "pending"
                    /\ req'[r].timeout = NoTimer
              /\ i \notin Range(sessions')
              /\ sessions_get(Heap', inst[i].id) = 0]_vars

C10_Witness ==
    \E r \in Req :
        /\ req[r].outcome = "Closed"
        /\ inst[req[r].sess].status = "closed"
        /\ req[r].sess \notin Range(sessions)

\* A call of sendText, sendAudio, updateInstructions or getHistory on id.
CallerStep(id) ==
    \/ \E ra \in BOOLEAN : SendText(id, ra)
    \/ \E ra \in BOOLEAN : SendAudio(id, ra)
    \/ \E text \in limits.texts : UpdateInstructions(id, text)
    \/ GetHistory(id)

\* C11 (as stated): once a transport error has rejected a call of a
\* session, sendText, sendAudio, updateInstructions and getHistory on that
\* session's id fail with SessionUnavailable and change nothing (the caller
\* not having closed the session itself).
C11_UnavailableFromThenOn ==
    [][\A r \in Req, id \in AllIds :
          (/\ req[r].outcome = "TransportError"
           /\ id = inst[req[r].sess].id
           /\ inst[req[r].sess].status = "error" => req[r].sess \in Range(sessions)
           /\ CallerStep(id)) =>
              /\ lastRes' = "SessionUnavailable"
              /\ UNCHANGED <<sessions, inst, req, remote>>]_vars

\* C11 (amended): a transport error on a connected session sets its status
\* to error and rejects every call in its table with the transport error,
\* leaving the table empty; a session whose status is error or closed has an
\* empty table from then on; sendText, sendAudio, updateInstructions and
\* getHistory fail with SessionUnavailable and change nothing while the
\* errored session is in the registry, and with SessionNotFound once the
\* close event has removed it.
C11_ErrorRejectsAndBlocks ==
    /\ [][\A i \in Inst :
             (WsError(i) /\ inst[i].status = "connected") =>
                 /\ inst'[i].status = "error"
                 /\ inst'[i].pendingResponses = << >>
                 /\ \A r \in Range(inst[i].pendingResponses) :
                       /\ req[r].outcome = "pending" =>
                              req'[r].outcome = "TransportError"
                       /\ req'[r].outcome # "pending"
                       /\ req'[r].timeout = NoTimer]_vars
    /\ [](\A i \in Inst : inst[i].status \in {"error", "closed"} =>
                             inst[i].pendingResponses = << >>)
    /\ [][\A id \in AllIds :
             CallerStep(id) =>
                 LET i == sessions_get(Heap, id)
                 IN  /\ (i # 0 /\ inst[i].status = "error") =>
                            /\ lastRes' = "SessionUnavailable"
                            /\ UNCHANGED <<sessions, inst, req, remote>>
                     /\ i = 0 =>
                            /\ lastRes' = "SessionNotFound"
                            /\ UNCHANGED <<sessions, inst, req, remote>>]_vars

C11_Witness ==
    /\ lastRes = "SessionUnavailable"
    /\ \E r \in Req :
          /\ req[r].outcome = "TransportError"
          /\ inst[req[r].sess].status = "error"
          /\ req[r].sess \in Range(sessions)

\* C12: closeSession on a session of the registry rejects every call that
\* was awaiting an answer with the closed error, leaves no timer of any call
\* of that session armed and its table empty, terminates the transport and
\* removes the session from the registry; a timer is only ever armed for a
\* call in a table, so none of that session fires afterwards.
C12_CloseSessionTearsDown ==
    /\ [][\A id \in AllIds :
             (CloseSession(id) /\ sessions_get(Heap, id) # 0) =>
                 LET i == sessions_get(Heap, id)
                 IN  /\ inst'[i].pendingResponses = << >>
                     /\ \A r \in Req :
                           req[r].sess = i =>
                               /\ req[r].outcome = "pending" =>
                                      req'[r].outcome = "ClosedManually"
                               /\ req'[r].outcome # "pending"
                               /\ req'[r].timeout = NoTimer
                     /\ inst'[i].ws \notin {"CONNECTING", "OPEN"}
                     /\ i \notin Range(sessions')
                     /\ sessions_get(Heap', id) = 0]_vars
    /\ [](\A r \in Req : req[r].timeout # NoTimer => InTable(Heap, r))

C12_Witness ==
    \E r1, r2 \in Req :
        /\ r1 # r2
        /\ req[r1].outcome = "ClosedManually"
        /\ req[r2].outcome = "ClosedManually"
        /\ req[r1].timeout = NoTimer /\ req[r2].timeout = NoTimer
        /\ req[r1].sess \notin Range(sessions)
        /\ inst[req[r1].sess].ws = "CLOSING"

\* C13: closeSession on an id the registry does not hold returns the
\* not-found result and changes nothing; on an id it holds it returns
\* success and the id is out of the registry, so that an immediate second
\* call returns not-found.
C13_CloseTwice ==
    [][\A id \in AllIds :
          CloseSession(id) =>
              IF sessions_get(Heap, id) = 0
              THEN /\ lastRes' = "not_found"
                   /\ UNCHANGED <<sessions, inst, req, remote>>
              ELSE /\ lastRes' = "success"
                   /\ sessions_get(Heap', id) = 0
                   /\ CloseResult(Heap', id) = "not_found"]_vars

C13_Witness ==
    /\ lastRes = "not_found"
    /\ \E i \in Inst :
          /\ inst[i].status = "connected"
          /\ inst[i].ws = "CLOSING"
          /\ i \notin Range(sessions)

\* The ids listSessions returns.
ListedIds(h) == { listSessions(h)[k].session_id : k \in 1..Len(h.sessions) }

\* C14: after closeSession(id), getSession(id) returns null and
\* listSessions does not contain id; and an id for which getSession returns
\* null stays so through every step that is not a createSession, the
\* transport's close event included.
C14_ClosedIdStaysGone ==
    [][\A id \in AllIds :
          /\ (getSession(Heap', id).found \/ id \in ListedIds(Heap')) =>
                 ~CloseSession(id)
          /\ (~getSession(Heap, id).found /\ getSession(Heap', id).found) =>
                 \E sid \in SuppliedIds \cup {NoId} : CreateSession(sid)
          /\ id \in ListedIds(Heap') <=> getSession(Heap', id).found]_vars

C14_Witness ==
    \E r \in Req :
        /\ req[r].outcome = "ClosedManually"
        /\ inst[req[r].sess].created = "ready"
        /\ inst[req[r].sess].ws = "CLOSED"
        /\ ~getSession(Heap, inst[req[r].sess].id).found
        /\ inst[req[r].sess].id \notin ListedIds(Heap)

\* C15: a sweep closes every session of the registry whose inactivity
\* exceeds the idle threshold (out of the registry, transport terminated,
\* table empty) and leaves every other session of the registry as it was.
C15_SweepClosesExactlyIdle ==
    [][CleanupIdleSessions =>
          \A i \in Range(sessions) :
              IF now - inst[i].lastActivityAt > config.sessionMaxIdleMs
              THEN /\ i \notin Range(sessions')
                   /\ inst'[i].ws \notin {"CONNECTING", "OPEN"}
                   /\ inst'[i].pendingResponses = << >>
              ELSE /\ i \in Range(sessions')
                   /\ inst'[i] = inst[i]]_vars

\* Right after a sweep that closed two sessions.
C15_Witness ==
    /\ nextSweep = now + CleanupIntervalTicks
    /\ sessions = << >>
    /\ \E i, j \in Inst :
          /\ i # j
          /\ inst[i].ws = "CLOSING" /\ inst[i].status = "connected"
          /\ inst[j].ws = "CLOSING" /\ inst[j].status = "connected"

\* A call that stamps the session's activity: sendText, sendAudio or
\* updateInstructions.
StampingStep ==
    \E id \in AllIds :
        \/ \E ra \in BOOLEAN : SendText(id, ra)
        \/ \E ra \in BOOLEAN : SendAudio(id, ra)
        \/ \E text \in limits.texts : UpdateInstructions(id, text)

\* C16: lastActivityAt of a session of the registry never decreases, and a
\* step that changes it is a sendText, sendAudio or updateInstructions call
\* and sets it to the time of the call.
C16_ActivityOnlyByCaller ==
    [][\A i \in Inst :
          (i \in Range(sessions) /\ i \in Range(sessions')
             /\ inst'[i].lastActivityAt # inst[i].lastActivityAt) =>
              /\ inst'[i].lastActivityAt > inst[i].lastActivityAt
              /\ inst'[i].lastActivityAt = now
              /\ StampingStep]_vars

\* A session that has opened, answered a call and seen time pass since the
\* caller last used it.
C16_Witness ==
    \E r \in Req :
        /\ req[r].outcome = "resolved"
        /\ req[r].sess \in Range(sessions)
        /\ inst[req[r].sess].lastActivityAt < now

\* C17: sendText, sendAudio, updateInstructions, getSession and getHistory
\* on a session that is in the registry with a status other than error and
\* closed each set its lastActivityAt to the time of the call.
C17_EveryCallStamps ==
    [][\A id \in AllIds :
          (/\ _getSession(Heap, id).err = "none"
           /\ CallerStep(id) \/ GetSession(id)) =>
              inst'[sessions_get(Heap, id)].lastActivityAt = now]_vars

\* The calls made on instance i that were resolved.
ResolvedCalls(i) == { r \in Req : req[r].sess = i /\ req[r].outcome = "resolved" }

C19_UpdateEmitsOnce ==
    [][\A id \in AllIds, text \in limits.texts :
          (_getSession(Heap, id).err = "none" /\ UpdateInstructions(id, text)) =>
              LET i == sessions_get(Heap, id)
              IN  /\ inst'[i].instructions = text
                  /\ remote'[i].updates = remote[i].updates + 1
                  /\ inst'[i].conversationHistory = inst[i].conversationHistory
                  /\ inst'[i].pendingResponses = inst[i].pendingResponses
                  /\ inst'[i].voice = inst[i].voice
                  /\ inst'[i].status = inst[i].status]_vars

\* C20: sendText, sendAudio, updateInstructions and getHistory fail with
\* SessionNotFound on an id the registry does not hold and with
\* SessionUnavailable on a session whose status is error or closed; such a
\* call registers no PendingRequest, sends nothing and changes no session.
C20_FailedLookupChangesNothing ==
    [][\A id \in AllIds :
          LET i == sessions_get(Heap, id)
          IN  (/\ i = 0 \/ inst[i].status \in {"error", "closed"}
               /\ CallerStep(id)) =>
                  /\ lastRes' = IF i = 0 THEN "SessionNotFound"
                                ELSE "SessionUnavailable"
                  /\ UNCHANGED <<sessions, inst, req, nReq, remote>>]_vars

C20_Witness ==
    /\ lastRes = "SessionNotFound"
    /\ nReq = 0
    /\ \E i \in Range(sessions) : inst[i].status = "connected"

C22_RoundTrip ==
    /\ (audio.call \in {"pcm16ToWavBase64", "wavBase64ToPcm16Base64"}
        /\ ~audio.wavBase64.thrown) =>
           Len(Buffer_from_base64(audio.wavBase64.data)) =
               Len(audio.pcmData) + 44
    /\ audio.call = "wavBase64ToPcm16Base64" =>
           /\ Buffer_from_base64(audio.pcm16Base64) = audio.pcmData
           /\ audio.pcm16Base64 = toString_base64(audio.pcmData)

C22_Witness ==
    /\ audio.call = "wavBase64ToPcm16Base64"
    /\ Len(audio.pcmData) = 2
    /\ audio.pcmData[1] # audio.pcmData[2]
    /\ Buffer_from_base64(audio.pcm16Base64) = audio.pcmData

\* The unsigned little-endian number stored in width bytes at offset off.
ReadUIntLE(buf, off, width) ==
    IF width = 2 THEN buf[off + 1] + 256 * buf[off + 2]
    ELSE buf[off + 1] + 256 * buf[off + 2] + 65536 * buf[off + 3]
         + 16777216 * buf[off + 4]

\* C23: for every input and layout, addWavHeader writes a header declaring
\* overallSize = 36 + dataSize, dataSize = the raw length,
\* byteRate = sampleRate * channels * bitsPerSample / 8 and
\* blockAlign = channels * bitsPerSample / 8.
C23_HeaderDeclaresSizes ==
    audio.call = "addWavHeader" =>
        /\ ~audio.header.thrown
        /\ ReadUIntLE(audio.header.data, 40, 4) = Len(audio.pcmData)
        /\ ReadUIntLE(audio.header.data, 4, 4) = 36 + Len(audio.pcmData)
        /\ 8 * ReadUIntLE(audio.header.data, 28, 4) =
               audio.sampleRate * audio.numChannels * audio.bitsPerSample
        /\ 8 * ReadUIntLE(audio.header.data, 32, 2) =
               audio.numChannels * audio.bitsPerSample

\* C23 for whole, in-range fields: when bitsPerSample is a multiple of 8 and
\* nothing is out of range, the header declares exactly those values.
C23_HeaderForWholeBytes ==
    (/\ audio.call = "addWavHeader"
     /\ audio.bitsPerSample % 8 = 0
     /\ audio.sampleRate >= 0
     /\ audio.numChannels <= UInt16Max) =>
        /\ ~audio.header.thrown
        /\ ReadUIntLE(audio.header.data, 40, 4) = Len(audio.pcmData)
        /\ ReadUIntLE(audio.header.data, 4, 4) = 36 + Len(audio.pcmData)
        /\ 8 * ReadUIntLE(audio.header.data, 28, 4) =
               audio.sampleRate * audio.numChannels * audio.bitsPerSample
        /\ 8 * ReadUIntLE(audio.header.data, 32, 2) =
               audio.numChannels * audio.bitsPerSample

\* The status changes a session may make ("none" is an instance not built
\* yet).
StatusMoves ==
    { <<"none", "connecting">>, <<"connecting", "connected">>,
      <<"connecting", "error">>, <<"connecting", "closed">>,
      <<"connected", "error">>, <<"connected", "closed">>,
      <<"error", "closed">> }

\* C24: a session's status only moves forward: it starts in connecting, may
\* become connected, error or closed, never goes back to connecting or
\* connected once it has left them, and never changes once it is closed.
C24_StatusMovesForward ==
    [][\A i \in Inst :
          /\ inst'[i].status # inst[i].status =>
                 <<inst[i].status, inst'[i].status>> \in StatusMoves
          /\ (inst[i].ws = "NONE" /\ inst'[i].ws # "NONE") =>
                 inst'[i].status = "connecting"]_vars

C24_Witness ==
    \E i, j \in Inst :
        /\ inst[i].status = "closed" /\ inst[i].created = "ready"
        /\ inst[j].status = "error" /\ inst[j].created = "ready"

\* C25: a step that hands a caller the result of getSession or listSessions
\* (the only results recorded in the read scope) changes no session field,
\* no pending table, no history and no registry entry; listSessions returns
\* one summary per session in the registry, in insertion order, each
\* describing that session.
C25_ReadsChangeNothing ==
    /\ [][(lastRes' # lastRes /\ lastRes' # "none") =>
             /\ UNCHANGED <<sessions, inst, req, remote, now, nextSweep>>
             /\ (\E id \in AllIds : GetSession(id)) \/ ListSessions]_vars
    /\ [](LET list == listSessions(Heap)
          IN  /\ Len(list) = Len(sessions)
              /\ \A k \in 1..Len(sessions) :
                     /\ list[k].found
                     /\ list[k].session_id = inst[sessions[k]].id
                     /\ list[k].status = inst[sessions[k]].status
                     /\ list[k].voice = inst[sessions[k]].voice
                     /\ list[k].message_count =
                            Len(inst[sessions[k]].conversationHistory)
              /\ \A k1, k2 \in 1..Len(sessions) :
                     list[k1].session_id = list[k2].session_id => k1 = k2)

C25_Witness ==
    /\ Len(sessions) = 2
    /\ lastRes = "list"
    /\ Len(listSessions(Heap)) = 2
    /\ listSessions(Heap)[1].status # listSessions(Heap)[2].status

\* An operation or inbound event of instance i: a caller operation on the id
\* that resolves to i, the createSession call that builds i, an event of i's
\* transport, or one of i's timers.
OwnStep(i) ==
    \/ WsOpen(i) \/ WsError(i) \/ WsClose(i) \/ ConnectTimeout(i)
    \/ RemoteStep(i)
    \/ \E r \in Req : req[r].sess = i /\ RequestTimeout(r)
    \/ \E id \in AllIds :
           /\ sessions_get(Heap, id) = i
           /\ CallerStep(id) \/ CloseSession(id)
    \/ i = nInst + 1 /\ \E sid \in SuppliedIds \cup {NoId} : CreateSession(sid)

\* The step changes one of the listed fields of instance j.
FieldsTouched(j) ==
    \/ inst'[j].pendingResponses # inst[j].pendingResponses
    \/ inst'[j].conversationHistory # inst[j].conversationHistory
    \/ inst'[j].instructions # inst[j].instructions
    \/ inst'[j].status # inst[j].status
    \/ inst'[j].lastActivityAt # inst[j].lastActivityAt
    \/ \E r \in Req : req[r].sess = j /\ req'[r] # req[r]

\* C26: an operation or inbound event of one session changes neither the
\* pending table, buffers, history, instructions, status and lastActivityAt
\* of another session nor whether callers can reach it, so what callers
\* observe of a session does not depend on the other sessions.
C26_NoInterference ==
    [][\A i, j \in Inst :
          (/\ i # j
           /\ inst[j].ws # "NONE"
           /\ \/ FieldsTouched(j)
              \/ (j \in Range(sessions)) # (j \in Range(sessions'))) =>
              ~OwnStep(i)]_vars

\* C26, the listed fields alone: no step of one session changes them on
\* another session that callers or its transport can still reach.
C26_FieldsUntouched ==
    [][\A i, j \in Inst :
          (/\ i # j
           /\ inst[j].ws # "NONE"
           /\ ~Unreachable(Heap', j)
           /\ FieldsTouched(j)) => ~OwnStep(i)]_vars

\* C27: when POST /sessions/:id/update with a voice, on a connected session,
\* replies updated.voice = true, the session's voice is the supplied voice
\* and a configuration update has been sent on its transport.
C27_VoiceUpdateApplied ==
    [][\A id \in AllIds, instructions \in limits.texts \cup {Undefined} :
          (/\ lastRes' \in {"updated:voice", "updated:instructions,voice"}
           /\ sessions_get(Heap, id) # 0
           /\ inst[sessions_get(Heap, id)].status = "connected"
           /\ PostUpdate(id, instructions, OtherVoice)) =>
              LET i == sessions_get(Heap, id)
              IN  /\ inst'[i].voice = OtherVoice
                  /\ remote'[i].updates > remote[i].updates]_vars

\* C27, what the route does do: a reply of updated.voice = true leaves the
\* voice of every session as it was.
C27_VoiceNeverChanges ==
    [][\A i \in Inst :
          inst[i].ws # "NONE" => inst'[i].voice = inst[i].voice]_vars

\* The token of the delta the remote service emits next on transport i.
NextToken(i, kind) == <<kind, Head(remote[i].q), remote[i].emitted + 1>>

\* A text delta is among the tokens of buffer b.
HasTextDelta(b) == \E n \in 1..Len(b) : b[n][1] = "text"

\* C28: a transcript delta is appended to the active request's text buffer
\* if and only if no text delta has arrived for that request yet (so a
\* request that gets only transcript deltas collects all of them, in order).
C28_TranscriptUnlessText ==
    [][\A i \in Inst :
          RemoteTranscriptDelta(i) =>
              LET r == _getLatestPending(Heap, i)
              IN  (r # 0 /\ req[r].outcome = "pending") =>
                      req'[r].textDelta =
                          IF HasTextDelta(req[r].textDelta)
                          THEN req[r].textDelta
                          ELSE req[r].textDelta \o << NextToken(i, "spoken") >>]_vars

\* C28, what the handler does: a transcript delta is appended if and only if
\* the text buffer is empty.
C28_TranscriptOnlyIntoEmptyBuffer ==
    [][\A i \in Inst :
          RemoteTranscriptDelta(i) =>
              LET r == _getLatestPending(Heap, i)
              IN  (r # 0 /\ req[r].outcome = "pending") =>
                      req'[r].textDelta =
                          IF req[r].textDelta # << >>
                          THEN req[r].textDelta
                          ELSE << NextToken(i, "spoken") >>]_vars

\* C29 (as stated): the responseText of a resolved call that received text
\* deltas is the concatenation of those text deltas (and nothing else).
C29_TextIsTextDeltasOnly ==
    \A r \in Req :
        (req[r].outcome = "resolved" /\ HasTextDelta(req[r].result.response_text)) =>
            \A n \in 1..Len(req[r].result.response_text) :
                req[r].result.response_text[n][1] = "text"

\* C29 (amended): every text delta is appended to the end of the active
\* request's text buffer; the buffer holds its text deltas in arrival order,
\* after whatever a transcript delta put there before the first of them; and
\* the resolved responseText is that buffer.
C29_TextDeltasAppendedInOrder ==
    /\ [][\A i \in Inst :
             RemoteTextDelta(i) =>
                 LET r == _getLatestPending(Heap, i)
                 IN  r # 0 =>
                         req'[r].textDelta =
                             req[r].textDelta \o << NextToken(i, "text") >>]_vars
    /\ [][\A i \in Inst, r \in Req :
             (/\ RemoteDone(i)
              /\ req[r].outcome = "pending"
              /\ req'[r].outcome = "resolved") =>
                 req'[r].result.response_text = req[r].textDelta]_vars
    /\ [](\A r \in Req :
             LET b == IF req[r].outcome = "resolved"
                      THEN req[r].result.response_text ELSE req[r].textDelta
             IN  \A m, n \in 1..Len(b) :
                     (m < n /\ b[m][1] = "text") =>
                         /\ b[n][1] = "text"
                         /\ b[m][3] < b[n][3])

C29_Witness ==
    \E r \in Req :
        /\ req[r].outcome = "resolved"
        /\ Len(req[r].result.response_text) = 2
        /\ req[r].result.response_text[1][1] = "text"
        /\ req[r].result.response_text[2][1] = "text"

\* The unresolved entries of instance i's pending table.
Unresolved(i) ==
    { r \in Range(inst[i].pendingResponses) : req[r].outcome = "pending" }

\* The step resolves entry r of instance i with its buffer, removes exactly
\* that entry and leaves the other entries of the table as they were.
ResolvesOnly(i, r) ==
    /\ req'[r].outcome = "resolved"
    /\ req'[r].result.response_text = req[r].textDelta
    /\ inst'[i].pendingResponses =
           SelectSeq(inst[i].pendingResponses, LAMBDA x : x # r)
    /\ \A other \in Range(inst[i].pendingResponses) \ {r} :
           req'[other] = req[other]

C30_DoneOnLiveTable ==
    [][\A i \in Inst :
          (/\ RemoteDone(i)
           /\ Unresolved(i) = Range(inst[i].pendingResponses)) =>
              IF inst[i].pendingResponses = << >>
              THEN UNCHANGED <<sessions, inst, req>>
              ELSE ResolvesOnly(i, _getLatestPending(Heap, i))]_vars

\* The step leaves history, status and registry as they were.
SessionKept(i) ==
    /\ inst'[i].conversationHistory = inst[i].conversationHistory
    /\ inst'[i].status = inst[i].status
    /\ sessions' = sessions

\* C31: an error event rejects the active request (the entry inserted last)
\* with the message the event carries, or with the fallback when it carries
\* none, removes that entry from the table and cancels its timeout; it leaves
\* the other entries, the history, the status and the registry as they were,
\* and changes nothing when the table is empty.
C31_ErrorEventRejectsActive ==
    [][\A i \in Inst, message \in {RemoteMessage, Undefined} :
          (/\ Owed(i)
           /\ Deliver(i, [type |-> "error", message |-> message],
                      [remote EXCEPT ![i].q = Tail(@), ![i].emitted = 0])) =>
              /\ SessionKept(i)
              /\ IF inst[i].pendingResponses = << >>
                 THEN UNCHANGED <<inst, req>>
                 ELSE LET r == _getLatestPending(Heap, i)
                          err == IF message = Undefined
                                 THEN UnknownOpenAIError ELSE RemoteMessage
                      IN  /\ inst'[i].pendingResponses =
                                 SelectSeq(inst[i].pendingResponses,
                                           LAMBDA x : x # r)
                          /\ req'[r].timeout = NoTimer
                          /\ req'[r].outcome =
                                 IF req[r].outcome = "pending" THEN err
                                 ELSE req[r].outcome
                          /\ req[r].outcome = "pending" =>
                                 req'[r].result = ErrorOf(err)
                          /\ \A other \in Range(inst[i].pendingResponses) \ {r} :
                                 req'[other] = req[other]]_vars

C31_Witness ==
    \E r1, r2 \in Req :
        /\ req[r1].outcome = RemoteMessage
        /\ req[r2].outcome = UnknownOpenAIError
        /\ req[r1].timeout = NoTimer /\ req[r2].timeout = NoTimer
        /\ inst[req[r1].sess].status = "connected"
        /\ inst[req[r1].sess].conversationHistory = << >>

\* The user turn a step pushes on instance i (the turn before the last).
PushedUserTurn(i) ==
    inst'[i].conversationHistory[Len(inst'[i].conversationHistory) - 1]

\* C32: when a sendAudio call resolves, the user turn pushed on the history
\* is tagged audio and its content is the input transcript the remote
\* service delivered for that call, else the placeholder; an
\* input-transcription event never changes the inputTranscript of a request
\* that is not an audio input.
C32_AudioTurnHasOwnTranscript ==
    /\ [][\A i \in Inst, r \in Req :
             (/\ req[r].outcome = "pending"
              /\ req'[r].outcome = "resolved"
              /\ req[r].isAudioInput
              /\ RemoteDone(i)) =>
                 /\ PushedUserTurn(i).role = "user"
                 /\ PushedUserTurn(i).content_type = "audio"
                 /\ PushedUserTurn(i).content \in
                        {Placeholder, << <<"heard", r, 0>> >>}
                 /\ (req[r].inputTranscript = << >>) =
                        (PushedUserTurn(i).content = Placeholder)]_vars
    /\ [](\A r \in Req :
             ~req[r].isAudioInput => req[r].inputTranscript = req[r].text)

\* C32 with one call at a time: the pushed user turn carries the call's own
\* transcript or the placeholder.
C32_AudioTurnOfSingleCall ==
    [][\A i \in Inst, r \in Req :
          (/\ req[r].outcome = "pending"
           /\ req'[r].outcome = "resolved"
           /\ req[r].isAudioInput
           /\ RemoteDone(i)) =>
              /\ PushedUserTurn(i).content_type = "audio"
              /\ PushedUserTurn(i).content =
                     IF req[r].inputTranscript = << >> THEN Placeholder
                     ELSE << <<"heard", r, 0>> >>]_vars

\* The append messages among the effects of a sendAudio call.
Appends(effects) ==
    SelectSeq(effects, LAMBDA m : m.type = "input_audio_buffer.append")

\* ceil(n / CHUNK_SIZE)
CeilChunks(n) == (n + CHUNK_SIZE - 1) \div CHUNK_SIZE

\* C33: sendAudio registers its PendingRequest first, then emits one clear,
\* then ceil(len / 15000) appends of at most 15000 characters each that
\* together are the input in order, then one commit, then one response
\* request (on an open transport; on one still in its handshake the first
\* send throws after the registration, on a closing one nothing is emitted).
C33_SendAudioMessageOrder ==
    audio.call = "sendAudio" =>
        LET e == audio.effects
            n == audio.audioLength
            a == Appends(e)
        IN  /\ e[1].type = "pendingResponses.set"
            /\ \A k \in 2..Len(e) : e[k].type # "pendingResponses.set"
            /\ audio.readyState = "CONNECTING" =>
                   e = << Message("pendingResponses.set"), Message("throw") >>
            /\ audio.readyState = "CLOSING" => Len(e) = 1
            /\ audio.readyState = "OPEN" =>
                   /\ Len(e) = CeilChunks(n) + 4
                   /\ e[2].type = "input_audio_buffer.clear"
                   /\ \A k \in 3..(Len(e) - 2) :
                          e[k].type = "input_audio_buffer.append"
                   /\ e[Len(e) - 1].type = "input_audio_buffer.commit"
                   /\ e[Len(e)].type = "response.create"
                   /\ Len(a) = CeilChunks(n)
                   /\ \A k \in 1..Len(a) :
                          /\ a[k].from = IF k = 1 THEN 0 ELSE a[k - 1].to
                          /\ a[k].to > a[k].from
                          /\ a[k].to - a[k].from <= 15000
                   /\ (a # << >>) => a[Len(a)].to = n

C33_Witness ==
    /\ audio.call = "sendAudio"
    /\ audio.readyState = "OPEN"
    /\ Len(Appends(audio.effects)) = 3
    /\ Appends(audio.effects)[3].to - Appends(audio.effects)[3].from = 4

\* C34: nothing is sent on a session's transport before it opens; the open
\* handler sends the configuration message, which is thus the first message
\* on the transport, in the step in which createSession resolves; and
\* createSession resolves in no other step, so never for a session whose
\* transport has not opened.
C34_ConfigurationFirst ==
    /\ [](\A i \in Inst :
             /\ inst[i].ws \in {"NONE", "CONNECTING"} =>
                    /\ remote[i] = FreeRemote
                    /\ inst[i].created # "ready"
             /\ (inst[i].ws = "OPEN" /\ inst[i].created = "ready") =>
                    remote[i].updates >= 1)
    /\ [][\A i \in Inst :
             /\ WsOpen(i) =>
                    /\ remote[i] = FreeRemote
                    /\ remote'[i].updates = 1 /\ remote'[i].q = << >>
                    /\ inst[i].created = "pending" => inst'[i].created = "ready"
             /\ (inst[i].created # "ready" /\ inst'[i].created = "ready") =>
                    /\ inst[i].ws = "CONNECTING" /\ inst'[i].ws = "OPEN"
                    /\ remote'[i].updates = 1]_vars

C34_Witness ==
    \E i \in Inst :
        /\ inst[i].created = "ready"
        /\ inst[i].ws = "OPEN"
        /\ remote[i].updates = 1
        /\ remote[i].q # << >>

\* C35: the close event or the connect timeout of one session instance
\* removes no other instance from the registry.
C35_LateCloseSparesNewer ==
    [][\A i, j \in Inst :
          (/\ i # j
           /\ j \in Range(sessions)
           /\ j \notin Range(sessions')) =>
              ~(WsClose(i) \/ ConnectTimeout(i))]_vars

\* C35 for the instance's own entry: a close event or connect timeout of an
\* instance that is in the registry removes it.
C35_CloseRemovesOwnEntry ==
    [][\A i \in Inst :
          (WsClose(i) \/ ConnectTimeout(i)) => i \notin Range(sessions')]_vars

\* C36: under fair delivery of transport events and timers, every
\* createSession call (made while the clock can still reach its connect
\* deadline) is eventually resolved or rejected.
C36_CreateEventuallySettles ==
    \A i \in Inst :
        (inst[i].created = "pending" /\ now < MaxTime) ~>
            (inst[i].created # "pending")

\* C36 when the transport delivers no error event before it opens: the call
\* is settled by the open event or by the connect timeout.
C36_SettlesUnlessTransportError ==
    \A i \in Inst :
        (/\ inst[i].created = "pending"
         /\ inst[i].status = "connecting"
         /\ now < MaxTime) ~>
            (inst[i].created # "pending" \/ inst[i].status = "error")

\* C37: a PendingRequest exists only on a connected session: a session that
\* is connecting or in error has an empty pending table, and no request made
\* on a session that was not connected has a timeout armed.
C37_PendingOnlyWhenConnected ==
    /\ \A i \in Inst :
           inst[i].pendingResponses # << >> => inst[i].status = "connected"
    /\ \A r \in Req :
           (req[r].sess # 0 /\ req[r].timeout # NoTimer) =>
               inst[req[r].sess].status = "connected"

\* C37 for the error state: a session whose status is error has an empty
\* pending table.
C37_NoPendingInError ==
    \A i \in Inst : inst[i].status = "error" => inst[i].pendingResponses = << >>

\* C38: when the response timeout is shorter than the idle threshold, every
\* registered session with a non-empty pending table has
\* now - lastActivityAt <= response timeout, and so the idle sweep never
\* closes a session that has an outstanding PendingRequest: a session with a
\* non-empty pending table is still registered, with the same table, after
\* the sweep.
C38_SweepSparesPending ==
    /\ config.responseTimeoutMs < config.sessionMaxIdleMs
    /\ \A i \in Range(sessions) :
           inst[i].pendingResponses # << >> =>
               now - inst[i].lastActivityAt <= config.responseTimeoutMs
    /\ \A i \in Range(sessions) :
           (now = nextSweep /\ inst[i].pendingResponses # << >>) =>
               LET after == _cleanupIdleSessions(Heap)
               IN  /\ i \in Range(after.sessions)
                   /\ after.inst[i].pendingResponses = inst[i].pendingResponses

\* A sweep is due while a connected session has an outstanding request that
\* has waited for the whole response timeout.
C38_Witness ==
    /\ now = nextSweep
    /\ \E i \in Range(sessions) :
           /\ inst[i].status = "connected"
           /\ inst[i].pendingResponses # << >>
           /\ now - inst[i].lastActivityAt = config.responseTimeoutMs

====
